---- MODULE Spec2Model ----
(***************************************************************************)
(* A model of app/poker_engine.py (PokerEngine): the card model, the hand  *)
(* evaluator, evaluate_hand and the Monte Carlo entry point                *)
(* calculate_probabilities.                                                *)
(*                                                                         *)
(* Python values are modelled as follows.                                  *)
(*   - a str is a TLA+ string; a card token, which the code slices, is a   *)
(*     sequence of one-character strings (<<"1","0","h">> is "10h");       *)
(*   - a Card object is a record [rank, suit, id]; id is the object's      *)
(*     identity (Card defines no __eq__, so == and `in` compare            *)
(*     identities);                                                        *)
(*   - None is 0 where the code only tests the value's truthiness;         *)
(*   - a call either returns or raises: outcome.kind says which.           *)
(***************************************************************************)
EXTENDS Integers, Sequences, FiniteSets, TLC

VARIABLES
    ranks,      \* self.ranks
    suits,      \* self.suits
    op,         \* the method called last ("none" before any call)
    args,       \* its arguments
    locals,     \* its local variables when it returned or raised
    outcome,    \* what it returned or raised
    env         \* the interpreter: the order it iterates a set of ints in

vars == <<ranks, suits, op, args, locals, outcome, env>>

(***************************************************************************)
(* Bounds of the model.                                                    *)
(***************************************************************************)
\* adjacent exchanges applied to an evaluator input before the model stops
MaxSwaps == 2
\* the largest num_simulations a call is made with
MaxSimulations == 2
\* the longest list of tokens parse_cards is called with
MaxTokens == 2
\* a trial's board is drawn from the first MaxBoardSpan cards of its pool
MaxBoardSpan == 8

(***************************************************************************)
(* Card                                                                    *)
(***************************************************************************)
None == 0
\* None where the code returns a tuple or None and tests its truthiness
NoTuple == <<>>

Card(rank, suit, id) == [rank |-> rank, suit |-> suit, id |-> id]

\* Card.get_value: values.get(self.rank, 0)
RankValues ==
    [r \in {"2", "3", "4", "5", "6", "7", "8", "9", "10", "J", "Q", "K", "A"} |->
        CASE r = "2" -> 2 [] r = "3" -> 3 [] r = "4" -> 4 [] r = "5" -> 5
          [] r = "6" -> 6 [] r = "7" -> 7 [] r = "8" -> 8 [] r = "9" -> 9
          [] r = "10" -> 10 [] r = "J" -> 11 [] r = "Q" -> 12 [] r = "K" -> 13
          [] r = "A" -> 14]

get_value(card) ==
    IF card.rank \in DOMAIN RankValues THEN RankValues[card.rank] ELSE 0

\* Card.__str__
CardStr(card) == card.rank \o card.suit

\* the (rank, suit) pairs of a list of cards
Faces(cards) == {<<cards[i].rank, cards[i].suit>> : i \in DOMAIN cards}

\* Card defines no __eq__: == is object identity
CardEq(a, b) == a.id = b.id

\* HandRank, by member name, and HandRank.<name>.value
HandRank ==
    [n \in {"HIGH_CARD", "PAIR", "TWO_PAIR", "THREE_OF_A_KIND", "STRAIGHT", "FLUSH",
            "FULL_HOUSE", "FOUR_OF_A_KIND", "STRAIGHT_FLUSH", "ROYAL_FLUSH"} |->
        CASE n = "HIGH_CARD" -> 1 [] n = "PAIR" -> 2 [] n = "TWO_PAIR" -> 3
          [] n = "THREE_OF_A_KIND" -> 4 [] n = "STRAIGHT" -> 5 [] n = "FLUSH" -> 6
          [] n = "FULL_HOUSE" -> 7 [] n = "FOUR_OF_A_KIND" -> 8
          [] n = "STRAIGHT_FLUSH" -> 9 [] n = "ROYAL_FLUSH" -> 10]

\* PokerEngine.__init__
InitRanks == <<"2", "3", "4", "5", "6", "7", "8", "9", "10", "J", "Q", "K", "A">>
InitSuits == <<"h", "d", "c", "s">>

(***************************************************************************)
(* Python list and set helpers                                             *)
(***************************************************************************)
Range(s) == {s[i] : i \in DOMAIN s}

\* list.count
Count(s, v) == Cardinality({i \in DOMAIN s : s[i] = v})

\* [f(x) for x in s]
ValuesOf(s) == [i \in DOMAIN s |-> get_value(s[i])]
SuitsOf(s) == [i \in DOMAIN s |-> s[i].suit]

SetMax(S) == CHOOSE x \in S : \A y \in S : y <= x
SetMin(S) == CHOOSE x \in S : \A y \in S : x <= y

\* sorted(S, reverse=True) of a set of ints
RECURSIVE SortedDesc(_)
SortedDesc(S) ==
    IF S = {} THEN <<>> ELSE <<SetMax(S)>> \o SortedDesc(S \ {SetMax(S)})

RECURSIVE SortedAsc(_)
SortedAsc(S) ==
    IF S = {} THEN <<>> ELSE <<SetMin(S)>> \o SortedAsc(S \ {SetMin(S)})

\* `for value in set(values)`: the order in which a set of ints is iterated is
\* the interpreter's (hash-table slots), a function of the list the set is built
\* from; order is the order this call's interpreter uses.
SetIter(S, order) == IF order = "descending" THEN SortedDesc(S) ELSE SortedAsc(S)

\* the first element of iter for which the count in values is n, else None
RECURSIVE FirstWithCount(_, _, _)
FirstWithCount(iter, values, n) ==
    IF iter = <<>> THEN None
    ELSE IF Count(values, Head(iter)) = n THEN Head(iter)
    ELSE FirstWithCount(Tail(iter), values, n)

\* sorted(cards, key=lambda x: x.get_value(), reverse=True): a stable sort
RECURSIVE InsertByValue(_, _)
InsertByValue(c, s) ==
    IF s = <<>> THEN <<c>>
    ELSE IF get_value(Head(s)) >= get_value(c)
         THEN <<Head(s)>> \o InsertByValue(c, Tail(s))
         ELSE <<c>> \o s

RECURSIVE SortInto(_, _)
SortInto(cards, acc) ==
    IF cards = <<>> THEN acc
    ELSE SortInto(Tail(cards), InsertByValue(Head(cards), acc))

\* mutant: the cards are left in the order given
sorted_by_value_unsorted(cards) == cards

sorted_by_value(cards) == SortInto(cards, <<>>)

\* s[:n]
Take(s, n) == SubSeq(s, 1, IF Len(s) < n THEN Len(s) ELSE n)

\* [x for x in s if x.suit == suit]
RECURSIVE OfSuit(_, _)
OfSuit(s, suit) ==
    IF s = <<>> THEN <<>>
    ELSE IF Head(s).suit = suit THEN <<Head(s)>> \o OfSuit(Tail(s), suit)
    ELSE OfSuit(Tail(s), suit)

(***************************************************************************)
(* Hand evaluator                                                          *)
(***************************************************************************)
\* _find_straight_high
RECURSIVE StraightFrom(_, _)
StraightFrom(unique_values, i) ==
    IF i + 4 > Len(unique_values) THEN None
    ELSE IF unique_values[i] - unique_values[i + 4] = 4 THEN unique_values[i]
    ELSE StraightFrom(unique_values, i + 1)

\* mutant: the Ace-low check is missing
_find_straight_high_no_wheel(values) == StraightFrom(SortedDesc(Range(values)), 1)

_find_straight_high(values) ==
    LET unique_values == SortedDesc(Range(values))
        present == Range(values)
    IN  IF {14, 2, 3, 4, 5} \subseteq present THEN 5
        ELSE StraightFrom(unique_values, 1)

_find_four_of_a_kind(values, order) ==
    FirstWithCount(SetIter(Range(values), order), values, 4)

\* (three_kind, pair) or None. A value counted 3 or more times takes the first
\* branch of the loop and is never a candidate for pair.
_find_full_house(values) ==
    LET threes == {v \in Range(values) : Count(values, v) >= 3}
        twos == {v \in Range(values) : Count(values, v) < 3 /\ Count(values, v) >= 2}
        three_kind == IF threes = {} THEN None ELSE SetMax(threes)
        pair == IF twos = {} THEN None ELSE SetMax(twos)
    IN  IF three_kind # None /\ pair # None THEN <<three_kind, pair>> ELSE NoTuple

_find_three_of_a_kind(values, order) ==
    FirstWithCount(SetIter(Range(values), order), values, 3)

\* mutant: the pairs are sorted ascending
_find_two_pair_ascending(values) ==
    LET pairs == SortedAsc({v \in Range(values) : Count(values, v) = 2})
    IN  IF Len(pairs) >= 2 THEN <<pairs[1], pairs[2]>> ELSE NoTuple

\* (pairs[0], pairs[1]) or None
_find_two_pair(values) ==
    LET pairs == SortedDesc({v \in Range(values) : Count(values, v) = 2})
    IN  IF Len(pairs) >= 2 THEN <<pairs[1], pairs[2]>> ELSE NoTuple

_find_pair(values, order) ==
    FirstWithCount(SetIter(Range(values), order), values, 2)

\* a tuple that repeats the primary value as a kicker where the evaluator
\* gives no kickers
Hand_value_as_kicker(hand_rank, hand_value, kickers) ==
    [hand_rank |-> hand_rank, hand_value |-> hand_value,
     kickers |-> IF kickers = <<>> THEN <<hand_value>> ELSE kickers]

\* the (hand_rank, hand_value, kickers) tuple
Hand(hand_rank, hand_value, kickers) ==
    [hand_rank |-> hand_rank, hand_value |-> hand_value, kickers |-> kickers]

\* the suit the loop over set(suits) stops at. A second suit with 5 or more
\* cards needs 10 cards; up to 9 cards the suit does not depend on the order
\* the set is iterated in.
FlushSuit(cards) ==
    LET s == SuitsOf(cards)
        found == {x \in Range(s) : Count(s, x) >= 5}
    IN  IF found = {} THEN "" ELSE CHOOSE x \in found : TRUE

_evaluate_hand_strength(cards, order) ==
    IF Len(cards) < 5 THEN Hand("HIGH_CARD", 0, <<>>)
    ELSE
    LET sorted_cards == sorted_by_value(cards)
        flush_suit == FlushSuit(cards)
        values == ValuesOf(sorted_cards)
        straight_high == _find_straight_high(values)
        four_kind == _find_four_of_a_kind(values, order)
        full_house == _find_full_house(values)
        flush_cards == Take(OfSuit(sorted_cards, flush_suit), 5)
        three_kind == _find_three_of_a_kind(values, order)
        two_pair == _find_two_pair(values)
        pair == _find_pair(values, order)
    IN  IF flush_suit # "" /\ straight_high # None
        THEN IF straight_high = 14 THEN Hand("ROYAL_FLUSH", 14, <<>>)
             ELSE Hand("STRAIGHT_FLUSH", straight_high, <<>>)
        ELSE IF four_kind # None THEN Hand("FOUR_OF_A_KIND", four_kind, <<>>)
        ELSE IF full_house # NoTuple
             THEN Hand("FULL_HOUSE", full_house[1], <<full_house[2]>>)
        ELSE IF flush_suit # ""
             THEN Hand("FLUSH", get_value(flush_cards[1]), ValuesOf(Tail(flush_cards)))
        ELSE IF straight_high # None THEN Hand("STRAIGHT", straight_high, <<>>)
        ELSE IF three_kind # None THEN Hand("THREE_OF_A_KIND", three_kind, <<>>)
        ELSE IF two_pair # NoTuple THEN Hand("TWO_PAIR", two_pair[1], <<two_pair[2]>>)
        ELSE IF pair # None THEN Hand("PAIR", pair, <<>>)
        ELSE Hand("HIGH_CARD", get_value(sorted_cards[1]),
                  ValuesOf(SubSeq(sorted_cards, 2, 5)))

(***************************************************************************)
(* What a call does: it returns a value or raises an exception             *)
(***************************************************************************)
NoCall == [kind |-> "none"]
Return(v) == [kind |-> "return", value |-> v]
Raise(e) == [kind |-> "raise", error |-> e]

(***************************************************************************)
(* parse_cards                                                             *)
(***************************************************************************)
\* str.lower on one character
Lower(ch) ==
    CASE ch = "A" -> "a" [] ch = "B" -> "b" [] ch = "C" -> "c" [] ch = "D" -> "d"
      [] ch = "E" -> "e" [] ch = "F" -> "f" [] ch = "G" -> "g" [] ch = "H" -> "h"
      [] ch = "I" -> "i" [] ch = "J" -> "j" [] ch = "K" -> "k" [] ch = "L" -> "l"
      [] ch = "M" -> "m" [] ch = "N" -> "n" [] ch = "O" -> "o" [] ch = "P" -> "p"
      [] ch = "Q" -> "q" [] ch = "R" -> "r" [] ch = "S" -> "s" [] ch = "T" -> "t"
      [] ch = "U" -> "u" [] ch = "V" -> "v" [] ch = "W" -> "w" [] ch = "X" -> "x"
      [] ch = "Y" -> "y" [] ch = "Z" -> "z" [] OTHER -> ch

\* the str made of the characters chars
RECURSIVE Join(_)
Join(chars) == IF chars = <<>> THEN "" ELSE Head(chars) \o Join(Tail(chars))

\* parse_cards; the Card objects it creates get the identities after base
RECURSIVE ParseFrom(_, _)
ParseFrom(card_strings, base) ==
    IF card_strings = <<>> THEN <<>>
    ELSE LET card_str == Head(card_strings)
             rank == Join(SubSeq(card_str, 1, Len(card_str) - 1))
             suit == Lower(card_str[Len(card_str)])
         IN  IF Len(card_str) >= 2 /\ rank \in Range(ranks) /\ suit \in Range(suits)
             THEN <<Card(rank, suit, base + 1)>> \o ParseFrom(Tail(card_strings), base + 1)
             ELSE ParseFrom(Tail(card_strings), base)

parse_cards(card_strings) == ParseFrom(card_strings, 0)

\* a token from its rank and suit texts
Tok(rank, suit) ==
    (IF rank = "10" THEN <<"1", "0">> ELSE <<rank>>) \o <<suit>>

(***************************************************************************)
(* evaluate_hand                                                           *)
(*                                                                         *)
(* A percentage is an integer number of hundredths (71.0 is 7100).  A list *)
(* argument left out (None) is the empty list: the code only tests such an *)
(* argument's truthiness, and None and [] are both falsy.                  *)
(***************************************************************************)
Min(a, b) == IF a < b THEN a ELSE b

\* _calculate_hand_strength_percentage
base_percentages ==
    [n \in DOMAIN HandRank |->
        CASE n = "ROYAL_FLUSH" -> 10000 [] n = "STRAIGHT_FLUSH" -> 9500
          [] n = "FOUR_OF_A_KIND" -> 9000 [] n = "FULL_HOUSE" -> 8500
          [] n = "FLUSH" -> 8000 [] n = "STRAIGHT" -> 7500
          [] n = "THREE_OF_A_KIND" -> 7000 [] n = "TWO_PAIR" -> 6500
          [] n = "PAIR" -> 6000 [] n = "HIGH_CARD" -> 5000]

_calculate_hand_strength_percentage(hand_rank, hand_value) ==
    Min(10000, base_percentages[hand_rank] + (hand_value - 2) * 50)

\* rank_names.get(v, str(v))
rank_names(v) ==
    CASE v = 11 -> "Jack" [] v = 12 -> "Queen" [] v = 13 -> "King" [] v = 14 -> "Ace"
      [] OTHER -> ToString(v)

\* _get_hand_description. The dict of descriptions is built whole before the
\* lookup, so kickers[0] is read for every category: with no kickers the read
\* raises IndexError.
_get_hand_description(hand_rank, hand_value, kickers) ==
    LET value_name == rank_names(hand_value)
    IN  IF Len(kickers) = 0 THEN Raise("IndexError")
        ELSE [kind |-> "return", value |->
            CASE hand_rank = "ROYAL_FLUSH" -> "Royal Flush"
              [] hand_rank = "STRAIGHT_FLUSH" -> value_name \o "-high Straight Flush"
              [] hand_rank = "FOUR_OF_A_KIND" -> "Four " \o value_name \o "s"
              [] hand_rank = "FULL_HOUSE" ->
                    "Full House, " \o value_name \o "s over " \o rank_names(kickers[1]) \o "s"
              [] hand_rank = "FLUSH" -> value_name \o "-high Flush"
              [] hand_rank = "STRAIGHT" -> value_name \o "-high Straight"
              [] hand_rank = "THREE_OF_A_KIND" -> "Three " \o value_name \o "s"
              [] hand_rank = "TWO_PAIR" ->
                    "Two Pair, " \o value_name \o "s and " \o rank_names(kickers[1]) \o "s"
              [] hand_rank = "PAIR" -> "Pair of " \o value_name \o "s"
              [] hand_rank = "HIGH_CARD" -> value_name \o " High"
              [] OTHER -> "Unknown Hand"]

\* _calculate_outs
_calculate_outs(hole_cards, board_cards) ==
    [straight_draw |-> 0, flush_draw |-> 0, overcards |-> 0, gutshot |-> 0, open_ended |-> 0]

StrsOf(cards) == [i \in DOMAIN cards |-> CardStr(cards[i])]

\* evaluate_hand: what the call returns or raises
evaluate_hand(player_cards, community_cards, order) ==
    IF player_cards = <<>> \/ Len(player_cards) < 2 THEN Raise("ValueError")
    ELSE
    LET hole_cards == parse_cards(player_cards)
        board_cards == IF community_cards # <<>>
                       THEN ParseFrom(community_cards, Len(hole_cards)) ELSE <<>>
        all_cards == hole_cards \o board_cards
        hand == _evaluate_hand_strength(all_cards, order)
        strength_percentage ==
            _calculate_hand_strength_percentage(hand.hand_rank, hand.hand_value)
        hand_description ==
            _get_hand_description(hand.hand_rank, hand.hand_value, hand.kickers)
    IN  IF hand_description.kind = "raise" THEN hand_description
        ELSE [kind |-> "return", value |->
                [hand_rank |-> hand.hand_rank,
                 hand_value |-> hand.hand_value,
                 strength_percentage |-> strength_percentage,
                 hand_description |-> hand_description.value,
                 outs |-> _calculate_outs(hole_cards, board_cards),
                 hole_cards |-> StrsOf(hole_cards),
                 board_cards |-> StrsOf(board_cards)]]

(***************************************************************************)
(* The comparison of two evaluated hands                                   *)
(***************************************************************************)
\* Python's order on (category, primary_value, kickers) tuples: the first
\* difference decides, and a list that is a prefix of another is smaller
RECURSIVE ListGreater(_, _)
ListGreater(a, b) ==
    IF a = <<>> THEN FALSE
    ELSE IF b = <<>> THEN TRUE
    ELSE IF Head(a) # Head(b) THEN Head(a) > Head(b)
    ELSE ListGreater(Tail(a), Tail(b))

\* the order with the primary value compared before the category
ScoreGreater_value_first(a, b) ==
    IF a[2] # b[2] THEN a[2] > b[2]
    ELSE IF a[1] # b[1] THEN a[1] > b[1]
    ELSE ListGreater(a[3], b[3])

ScoreGreater(a, b) ==
    IF a[1] # b[1] THEN a[1] > b[1]
    ELSE IF a[2] # b[2] THEN a[2] > b[2]
    ELSE ListGreater(a[3], b[3])

\* the score tuple of an evaluated hand
Score(hand) == <<HandRank[hand.hand_rank], hand.hand_value, hand.kickers>>

\* the best opponent score: the loop over opponent_hands from (0, 0, [])
RECURSIVE BestOpponent(_, _, _, _)
BestOpponent(opponent_hands, simulated_board, best_opponent_score, order) ==
    IF opponent_hands = <<>> THEN best_opponent_score
    ELSE LET opponent_eval ==
                 _evaluate_hand_strength(Head(opponent_hands) \o simulated_board, order)
             opponent_score == Score(opponent_eval)
         IN  BestOpponent(Tail(opponent_hands), simulated_board,
                          IF ScoreGreater(opponent_score, best_opponent_score)
                          THEN opponent_score ELSE best_opponent_score,
                          order)

\* the end of a trial: the hands are evaluated and the winner is determined;
\* wins and ties are the two counters after the trial, from 0
DetermineWinner(hole_cards, simulated_board, opponent_hands, order) ==
    LET player_hand == _evaluate_hand_strength(hole_cards \o simulated_board, order)
        player_score == Score(player_hand)
        best_opponent_score ==
            BestOpponent(opponent_hands, simulated_board, <<0, 0, <<>>>>, order)
        won == ScoreGreater(player_score, best_opponent_score)
        tied == ~won /\ player_score = best_opponent_score
    IN  [player_score |-> player_score,
         best_opponent_score |-> best_opponent_score,
         wins |-> IF won THEN 1 ELSE 0,
         ties |-> IF tied THEN 1 ELSE 0]

(***************************************************************************)
(* calculate_probabilities                                                 *)
(***************************************************************************)
\* _create_deck: 52 new Card objects, with the identities after base; one is
\* left out if it is `in` excluded_cards, which compares with ==
CardIn(card, cards) == \E i \in DOMAIN cards : CardEq(card, cards[i])

RECURSIVE DeckFrom(_, _, _)
DeckFrom(k, excluded_cards, base) ==
    IF k > Len(ranks) * Len(suits) THEN <<>>
    ELSE LET rank == ranks[((k - 1) \div Len(suits)) + 1]
             suit == suits[((k - 1) % Len(suits)) + 1]
             card == Card(rank, suit, base + k)
         IN  IF excluded_cards = <<>> \/ ~CardIn(card, excluded_cards)
             THEN <<card>> \o DeckFrom(k + 1, excluded_cards, base)
             ELSE DeckFrom(k + 1, excluded_cards, base)

_create_deck(excluded_cards, base) == DeckFrom(1, excluded_cards, base)

\* round(count / n * 100, 2) in hundredths, n # 0: the nearest integer to
\* count * 10000 / n (a call that returns has run no trial: count is 0)
Percent(count, n) ==
    LET a == IF n < 0 THEN -count * 10000 ELSE count * 10000
        b == IF n < 0 THEN -n ELSE n
    IN  IF a >= 0 THEN (2 * a + b) \div (2 * b) ELSE -((2 * (-a) + b) \div (2 * b))

\* calculate_probabilities: its local variables when it ends, and what it
\* returns or raises (trial is the loop variable `_`).  The first trial builds
\* the deck and sets remaining_community, and then reads board_cards, a name
\* bound neither in the function nor in the module: the read raises NameError
\* before any card is drawn.
calculate_probabilities(player_cards, community_cards, num_players, num_simulations) ==
    IF player_cards = <<>> \/ Len(player_cards) < 2
    THEN [locals |-> <<>>, outcome |-> Raise("ValueError")]
    ELSE
    LET known_cards == parse_cards(player_cards \o community_cards)
        entry == [known_cards |-> known_cards, wins |-> 0, ties |-> 0]
    IN  IF num_simulations >= 1
        THEN [locals |->
                [known_cards |-> known_cards, wins |-> 0, ties |-> 0, trial |-> 0,
                 deck |-> _create_deck(known_cards, Len(known_cards)),
                 remaining_community |->
                    IF community_cards # <<>> THEN 5 - Len(community_cards) ELSE 5],
              outcome |-> Raise("NameError")]
        ELSE IF num_simulations = 0
        THEN [locals |-> entry, outcome |-> Raise("ZeroDivisionError")]
        ELSE LET win_probability == Percent(entry.wins, num_simulations)
                 tie_probability == Percent(entry.ties, num_simulations)
                 lose_probability == 10000 - win_probability - tie_probability
             IN  [locals |->
                    [known_cards |-> known_cards, wins |-> 0, ties |-> 0,
                     win_probability |-> win_probability,
                     tie_probability |-> tie_probability,
                     lose_probability |-> lose_probability],
                  outcome |-> [kind |-> "return", value |->
                    [win_probability |-> win_probability,
                     tie_probability |-> tie_probability,
                     lose_probability |-> lose_probability,
                     simulations |-> num_simulations]]]

\* random.sample(deck, 2): two cards of the deck; pick names the places they
\* are taken from
Sample2(deck, pick) ==
    CASE pick = "first" -> <<deck[1], deck[2]>>
      [] pick = "last" -> <<deck[Len(deck) - 1], deck[Len(deck)]>>
      [] OTHER -> <<deck[1], deck[Len(deck)]>>

\* [card for card in deck if card not in opponent_hand]
RECURSIVE Without(_, _)
Without(deck, opponent_hand) ==
    IF deck = <<>> THEN <<>>
    ELSE IF CardIn(Head(deck), opponent_hand) THEN Without(Tail(deck), opponent_hand)
    ELSE <<Head(deck)>> \o Without(Tail(deck), opponent_hand)

\* the loop that deals the opponent hands, with `times` turns left: a turn
\* that finds fewer than 2 cards in the deck deals nothing and the loop goes on
RECURSIVE DealOpponents(_, _, _, _)
DealOpponents(deck, times, opponent_hands, pick) ==
    IF times <= 0 THEN [opponent_hands |-> opponent_hands, deck |-> deck]
    ELSE IF Len(deck) >= 2
    THEN LET opponent_hand == Sample2(deck, pick)
         IN  DealOpponents(Without(deck, opponent_hand), times - 1,
                           Append(opponent_hands, opponent_hand), pick)
    ELSE DealOpponents(deck, times - 1, opponent_hands, pick)

(***************************************************************************)
(* calculate_pot_odds                                                      *)
(*                                                                         *)
(* The amounts are integers; the float results are exact fractions in      *)
(* lowest terms with a positive denominator, and round(x, k) gives an      *)
(* integer number of 10^-k units.                                          *)
(***************************************************************************)
Abs(i) == IF i < 0 THEN -i ELSE i

RECURSIVE GCD(_, _)
GCD(a, b) == IF b = 0 THEN a ELSE GCD(b, a % b)

\* the fraction n / d, d # 0
Rat(n, d) ==
    LET g == GCD(Abs(n), Abs(d))
        sign == IF d < 0 THEN -1 ELSE 1
    IN  [n |-> (sign * n) \div g, d |-> (sign * d) \div g]

RatAdd(x, y) == Rat(x.n * y.d + y.n * x.d, x.d * y.d)
RatSub(x, y) == Rat(x.n * y.d - y.n * x.d, x.d * y.d)
RatMul(x, y) == Rat(x.n * y.n, x.d * y.d)
RatGreater(x, y) == x.n * y.d > y.n * x.d
RatMax(x, y) == IF RatGreater(y, x) THEN y ELSE x

\* round(x, k) in units of 1 / scale, scale = 10^k.  A float that stands for
\* a value midway between two results is a little below or a little above
\* it, so such a value is rounded down or up: half is the way it goes.
Halves == {"down", "up"}

Round(x, scale, half) ==
    LET whole == x.n \div x.d
        part == (x.n % x.d) * scale
        low == part \div x.d
        twice == 2 * (part % x.d)
        up == twice > x.d \/ (twice = x.d /\ half = "up")
    IN  whole * scale + low + (IF up THEN 1 ELSE 0)

\* str.lower on a text given as its characters
LowerStr(chars) == Join([i \in DOMAIN chars |-> Lower(chars[i])])

\* position_multipliers.get(key, 1.0)
position_multipliers(key) ==
    CASE key = "button" -> Rat(12, 10)
      [] key = "cutoff" -> Rat(11, 10)
      [] key = "middle" -> Rat(10, 10)
      [] key = "early" -> Rat(9, 10)
      [] key = "blinds" -> Rat(10, 10)
      [] OTHER -> Rat(10, 10)

\* the implied odds with the floor of the equity adjustment, 0.5
_calculate_implied_odds_floor_half(pot_size, bet_to_call, position, num_players) ==
    LET position_mult == position_multipliers(LowerStr(position))
        player_multiplier == RatMax(Rat(5, 10), Rat(10 - (num_players - 2), 10))
    IN  RatMul(RatMul(Rat(pot_size, 1), position_mult), player_multiplier)

_calculate_implied_odds(pot_size, bet_to_call, position, num_players) ==
    LET base_multiplier == Rat(1, 1)
        position_mult == position_multipliers(LowerStr(position))
        player_multiplier == RatMax(Rat(8, 10), Rat(10 - (num_players - 2), 10))
    IN  RatMul(RatMul(RatMul(Rat(pot_size, 1), base_multiplier), position_mult),
               player_multiplier)

\* rank_equity
rank_equity ==
    [n \in DOMAIN HandRank |->
        CASE n = "ROYAL_FLUSH" -> 95 [] n = "STRAIGHT_FLUSH" -> 90
          [] n = "FOUR_OF_A_KIND" -> 85 [] n = "FULL_HOUSE" -> 80
          [] n = "FLUSH" -> 75 [] n = "STRAIGHT" -> 70
          [] n = "THREE_OF_A_KIND" -> 65 [] n = "TWO_PAIR" -> 60
          [] n = "PAIR" -> 55 [] n = "HIGH_CARD" -> 50]

\* an equity without the adjustment for the number of players
_calculate_equity_heads_up(player_cards, community_cards, num_players, order) ==
    LET hole_cards == parse_cards(player_cards)
        board_cards == ParseFrom(community_cards, Len(hole_cards))
        hand == _evaluate_hand_strength(hole_cards \o board_cards, order)
    IN  Rat(rank_equity[hand.hand_rank], 1)

_calculate_equity(player_cards, community_cards, num_players, order) ==
    LET hole_cards == parse_cards(player_cards)
        board_cards == ParseFrom(community_cards, Len(hole_cards))
        hand == _evaluate_hand_strength(hole_cards \o board_cards, order)
        base_equity == Rat(rank_equity[hand.hand_rank], 1)
        player_adjustment == RatMax(Rat(5, 10), Rat(10 - (num_players - 2), 10))
    IN  RatMul(base_equity, player_adjustment)

_calculate_expected_value(pot_size, bet_to_call, equity, implied_odds) ==
    RatSub(RatMul(RatMul(equity, Rat(1, 100)), RatAdd(Rat(pot_size, 1), implied_odds)),
           Rat(bet_to_call, 1))

\* a recommendation that folds whenever the expected value is not positive
_generate_recommendation_fold_without_ev(pot_odds, equity, ev, position, num_players) ==
    IF equity.n = 0 THEN Return("Insufficient information to make recommendation")
    ELSE IF RatGreater(ev, Rat(0, 1)) THEN Raise("NameError")
    ELSE Return("Fold - equity below pot odds")

\* _generate_recommendation: bet_to_call is not among its parameters and is
\* bound nowhere else, so reading it raises NameError
_generate_recommendation(pot_odds, equity, ev, position, num_players) ==
    IF equity.n = 0 THEN Return("Insufficient information to make recommendation")
    ELSE IF RatGreater(ev, Rat(0, 1)) THEN Raise("NameError")
    ELSE IF RatGreater(equity, pot_odds) THEN Return("Call - equity exceeds pot odds")
    ELSE Return("Fold - equity below pot odds")

\* calculate_pot_odds: its local variables when it ends, and what it returns
\* or raises
calculate_pot_odds(pot_size, bet_to_call, player_cards, community_cards, position, num_players, order, half) ==
    IF pot_size + bet_to_call = 0
    THEN [locals |-> <<>>, outcome |-> Raise("ZeroDivisionError")]
    ELSE
    LET pot_odds_ratio == Rat(bet_to_call, pot_size + bet_to_call)
        pot_odds_percentage == RatMul(pot_odds_ratio, Rat(100, 1))
        implied_odds == _calculate_implied_odds(pot_size, bet_to_call, position, num_players)
        equity == IF player_cards # <<>> /\ community_cards # <<>>
                  THEN _calculate_equity(player_cards, community_cards, num_players, order)
                  ELSE Rat(0, 1)
        is_profitable == IF RatGreater(equity, Rat(0, 1))
                         THEN RatGreater(equity, pot_odds_percentage) ELSE FALSE
        ev == _calculate_expected_value(pot_size, bet_to_call, equity, implied_odds)
        recommendation ==
            _generate_recommendation(pot_odds_percentage, equity, ev, position, num_players)
        bound == [pot_odds_ratio |-> pot_odds_ratio,
                  pot_odds_percentage |-> pot_odds_percentage,
                  implied_odds |-> implied_odds,
                  equity |-> equity,
                  is_profitable |-> is_profitable,
                  ev |-> ev]
    IN  IF recommendation.kind = "raise"
        THEN [locals |-> bound, outcome |-> recommendation]
        ELSE [locals |-> bound,
              outcome |-> [kind |-> "return", value |->
                [pot_odds_ratio |-> Round(pot_odds_ratio, 10000, half),
                 pot_odds_percentage |-> Round(pot_odds_percentage, 100, half),
                 implied_odds |-> Round(implied_odds, 100, half),
                 equity |-> Round(equity, 100, half),
                 expected_value |-> Round(ev, 100, half),
                 is_profitable |-> is_profitable,
                 recommendation |-> recommendation.value,
                 break_even_equity |-> Round(pot_odds_percentage, 100, half)]]]

(***************************************************************************)
(* Inputs.  The evaluator is called on every hand of 5 to 7 cards of two   *)
(* ten-card packs and on the hands the specification names; evaluate_hand  *)
(* and calculate_probabilities on lists of tokens of a pool.               *)
(***************************************************************************)
\* the wheel, a six, a flush and a straight that spans two suits
LowPack ==
    <<Tok("A", "h"), Tok("2", "h"), Tok("3", "h"), Tok("4", "h"), Tok("5", "h"),
      Tok("6", "h"), Tok("9", "h"), Tok("2", "d"), Tok("5", "d"), Tok("6", "d")>>

\* pairs, triples and fours of three ranks
HighPack ==
    <<Tok("A", "s"), Tok("K", "s"), Tok("A", "h"), Tok("K", "h"), Tok("Q", "d"),
      Tok("A", "d"), Tok("K", "d"), Tok("K", "c"), Tok("Q", "s"), Tok("Q", "h")>>

WheelFlushTokens == <<Tok("A", "h"), Tok("2", "h"), Tok("3", "h"), Tok("4", "h"), Tok("5", "h")>>
WheelTokens == <<Tok("A", "h"), Tok("2", "d"), Tok("3", "c"), Tok("4", "s"), Tok("5", "h")>>
RoyalTokens == <<Tok("A", "h"), Tok("K", "h"), Tok("Q", "h"), Tok("J", "h"), Tok("10", "h")>>
AcesKingsTokens == <<Tok("A", "s"), Tok("K", "s"), Tok("A", "h"), Tok("K", "h"), Tok("Q", "d")>>

\* the elements of pack at the positions in idx, in pack order
RECURSIVE Pick(_, _)
Pick(pack, idx) ==
    IF idx = {} THEN <<>>
    ELSE <<pack[SetMin(idx)]>> \o Pick(pack, idx \ {SetMin(idx)})

HandsOf(pack) ==
    {Pick(pack, idx) : idx \in {x \in SUBSET DOMAIN pack : Cardinality(x) \in 5..7}}

EvalTokens ==
    HandsOf(LowPack) \cup HandsOf(HighPack) \cup {WheelFlushTokens, WheelTokens, RoyalTokens}

SetOrders == {"ascending", "descending"}

\* the tokens the arguments of evaluate_hand are drawn from; the last one
\* denotes no card
HandPool ==
    <<Tok("A", "h"), Tok("K", "h"), Tok("Q", "h"), Tok("J", "h"), Tok("10", "h"),
      Tok("A", "s"), Tok("K", "s"), Tok("Q", "d"), Tok("A", "d"), Tok("X", "x")>>

\* the tokens the arguments of calculate_probabilities are drawn from
SimPool ==
    <<Tok("A", "h"), Tok("K", "h"), Tok("Q", "h"), Tok("J", "h"), Tok("10", "h"),
      Tok("2", "c"), Tok("7", "d"), Tok("X", "x")>>

PlayerCounts == {1, 2, 6, 10, 11}

\* the tokens parse_cards is called with: cards written in upper and lower
\* case, and texts that denote no card
ParsePool ==
    {Tok("A", "h"), Tok("A", "H"), Tok("a", "h"), Tok("a", "H"), Tok("10", "s"),
     Tok("10", "S"), Tok("k", "d"), Tok("Q", "c"), Tok("j", "C"), Tok("2", "D"),
     Tok("X", "h"), Tok("1", "h"), Tok("A", "x"), <<"A">>, <<"A", "h", "h">>, <<>>}

\* the lists of at most n elements of S
RECURSIVE ListsUpTo(_, _)
ListsUpTo(S, n) ==
    IF n = 0 THEN {<<>>}
    ELSE LET shorter == ListsUpTo(S, n - 1)
         IN  shorter \cup {Append(l, x) : l \in shorter, x \in S}

\* the cards a trial's board, hole cards and opponent hands are drawn from
TrialPool ==
    <<Tok("A", "h"), Tok("K", "h"), Tok("Q", "h"), Tok("J", "h"), Tok("10", "h"),
      Tok("9", "d"), Tok("A", "s"), Tok("K", "s"), Tok("K", "d"), Tok("A", "d"),
      Tok("9", "s")>>

\* the arguments of calculate_pot_odds: amounts that are negative, zero and
\* positive, positions in lower and upper case, the positions of the request
\* model and the hands of the tests
PotSizes == {-10, 0, 50, 100}

BetSizes == {-10, 0, 10, 20, 200}

PositionTexts ==
    {<<"b", "u", "t", "t", "o", "n">>, <<"B", "u", "t", "t", "o", "n">>,
     <<"c", "u", "t", "o", "f", "f">>, <<"C", "U", "T", "O", "F", "F">>,
     <<"m", "i", "d", "d", "l", "e">>, <<"e", "a", "r", "l", "y">>,
     <<"b", "l", "i", "n", "d", "s">>,
     <<"s", "m", "a", "l", "l", "_", "b", "l", "i", "n", "d">>,
     <<"b", "i", "g", "_", "b", "l", "i", "n", "d">>,
     <<"u", "n", "k", "n", "o", "w", "n">>}

OddsPlayerCounts == 2..10

HighCardTokens == <<Tok("A", "h"), Tok("K", "d"), Tok("Q", "h"), Tok("7", "d"), Tok("2", "c")>>

OddsHands ==
    {[player_cards |-> <<>>, community_cards |-> <<>>],
     [player_cards |-> SubSeq(RoyalTokens, 1, 2), community_cards |-> <<>>],
     [player_cards |-> <<>>, community_cards |-> SubSeq(RoyalTokens, 3, 5)],
     [player_cards |-> SubSeq(RoyalTokens, 1, 2), community_cards |-> SubSeq(RoyalTokens, 3, 5)],
     [player_cards |-> SubSeq(AcesKingsTokens, 1, 2),
      community_cards |-> SubSeq(AcesKingsTokens, 3, 5)],
     [player_cards |-> SubSeq(HighCardTokens, 1, 2),
      community_cards |-> SubSeq(HighCardTokens, 3, 5)]}

\* the player counts and the sampling places of the dealing loop: counts
\* within 2..10 and counts that need more cards than a deck holds
DealPlayerCounts == {2, 3, 10, 27, 28, 30}

SamplePicks == {"first", "last", "ends"}

\* the callers of the shared engine and the calls they make
Callers == {1, 2}

Request(method, pot_size, bet_to_call, player_cards, community_cards, position, num_players) ==
    [method |-> method, pot_size |-> pot_size, bet_to_call |-> bet_to_call,
     player_cards |-> player_cards, community_cards |-> community_cards,
     position |-> position, num_players |-> num_players]

SharedCalls ==
    {Request("evaluate_hand", 0, 0, SubSeq(AcesKingsTokens, 1, 2),
             SubSeq(AcesKingsTokens, 3, 5), <<>>, 0),
     Request("evaluate_hand", 0, 0, SubSeq(HighCardTokens, 1, 2),
             SubSeq(HighCardTokens, 3, 5), <<>>, 0),
     Request("evaluate_hand", 0, 0, SubSeq(RoyalTokens, 1, 2),
             SubSeq(RoyalTokens, 3, 5), <<>>, 0),
     Request("evaluate_hand", 0, 0, <<Tok("A", "h")>>, <<>>, <<>>, 0),
     Request("parse_cards", 0, 0, <<Tok("A", "H"), Tok("10", "s")>>, <<>>, <<>>, 0),
     Request("parse_cards", 0, 0, <<Tok("a", "h"), Tok("X", "x"), Tok("K", "d")>>,
             <<>>, <<>>, 0),
     Request("calculate_pot_odds", 100, 20, <<>>, <<>>,
             <<"u", "n", "k", "n", "o", "w", "n">>, 2),
     Request("calculate_pot_odds", 100, 200, SubSeq(RoyalTokens, 1, 2),
             SubSeq(RoyalTokens, 3, 5), <<"b", "u", "t", "t", "o", "n">>, 3),
     Request("calculate_pot_odds", 100, 20, SubSeq(RoyalTokens, 1, 2),
             SubSeq(RoyalTokens, 3, 5), <<"b", "u", "t", "t", "o", "n">>, 3)}

\* the sets of positions of pool with lo to hi elements
Positions(pool, lo, hi) == {x \in SUBSET DOMAIN pool : Cardinality(x) \in lo..hi}

(***************************************************************************)
(* State machine: the engine is constructed, then one method is called     *)
(***************************************************************************)
Engine ==
    /\ ranks = InitRanks
    /\ suits = InitSuits

Init ==
    /\ Engine
    /\ op = "none"
    /\ args = <<>>
    /\ locals = <<>>
    /\ outcome = NoCall
    /\ env = [set_order |-> "ascending", swaps |-> 0]

\* the hand evaluator called on a list of cards
EvaluateHandStrength ==
    /\ op = "none"
    /\ \E tokens \in EvalTokens, order \in SetOrders :
          LET cards == parse_cards(tokens)
          IN  /\ args' = [cards |-> cards]
              /\ env' = [set_order |-> order, swaps |-> 0]
              /\ outcome' = Return(_evaluate_hand_strength(cards, order))
    /\ op' = "_evaluate_hand_strength"
    /\ UNCHANGED <<ranks, suits, locals>>

\* s with the elements at i and i + 1 exchanged
Exchange(s, i) ==
    [k \in DOMAIN s |-> IF k = i THEN s[i + 1] ELSE IF k = i + 1 THEN s[i] ELSE s[k]]

\* the hand evaluator called again on the same cards in another order
EvaluateReordered ==
    /\ op = "_evaluate_hand_strength"
    /\ env.swaps < MaxSwaps
    /\ \E i \in 1..(Len(args.cards) - 1) :
          LET cards == Exchange(args.cards, i)
          IN  /\ args' = [cards |-> cards]
              /\ outcome' = Return(_evaluate_hand_strength(cards, env.set_order))
    /\ env' = [env EXCEPT !.swaps = @ + 1]
    /\ UNCHANGED <<ranks, suits, op, locals>>

NextEval == EvaluateHandStrength \/ EvaluateReordered

SpecEval == Init /\ [][NextEval]_vars

EvaluateHand ==
    /\ op = "none"
    /\ \E p \in Positions(HandPool, 0, 2), order \in SetOrders :
       \E c \in {x \in Positions(HandPool, 0, 5) : x \cap p = {}} :
          LET player_cards == Pick(HandPool, p)
              community_cards == Pick(HandPool, c)
          IN  /\ args' = [player_cards |-> player_cards, community_cards |-> community_cards]
              /\ env' = [set_order |-> order, swaps |-> 0]
              /\ outcome' = evaluate_hand(player_cards, community_cards, order)
    /\ op' = "evaluate_hand"
    /\ UNCHANGED <<ranks, suits, locals>>

NextHand == EvaluateHand

SpecHand == Init /\ [][NextHand]_vars

CalculateProbabilities ==
    /\ op = "none"
    /\ \E p \in Positions(SimPool, 0, 2), num_players \in PlayerCounts,
          num_simulations \in (-1)..MaxSimulations :
       \E c \in {x \in Positions(SimPool, 0, 5) : x \cap p = {}} :
          LET player_cards == Pick(SimPool, p)
              community_cards == Pick(SimPool, c)
              call == calculate_probabilities(player_cards, community_cards,
                                              num_players, num_simulations)
          IN  /\ args' = [player_cards |-> player_cards,
                          community_cards |-> community_cards,
                          num_players |-> num_players,
                          num_simulations |-> num_simulations]
              /\ locals' = call.locals
              /\ outcome' = call.outcome
    /\ op' = "calculate_probabilities"
    /\ UNCHANGED <<ranks, suits, env>>

NextSim == CalculateProbabilities

SpecSim == Init /\ [][NextSim]_vars

\* the end of one trial on a full board, the hole cards and one or two
\* opponent hands: every hand is evaluated and the winner is determined
ScoreTrial ==
    /\ op = "none"
    /\ \E b \in {x \in Positions(TrialPool, 5, 5) : x \subseteq 1..MaxBoardSpan},
          order \in SetOrders :
       \E h \in {x \in Positions(TrialPool, 2, 2) : x \cap b = {}} :
       \E o1 \in {x \in Positions(TrialPool, 2, 2) : x \cap (b \cup h) = {}} :
       \E o2 \in {x \in Positions(TrialPool, 0, 2) :
                     /\ x \cap (b \cup h \cup o1) = {}
                     /\ Cardinality(x) # 1} :
          LET cards == parse_cards(TrialPool)
              hole_cards == Pick(cards, h)
              simulated_board == Pick(cards, b)
              opponent_hands == IF o2 = {} THEN <<Pick(cards, o1)>>
                                ELSE <<Pick(cards, o1), Pick(cards, o2)>>
          IN  /\ args' = [hole_cards |-> hole_cards,
                          simulated_board |-> simulated_board,
                          opponent_hands |-> opponent_hands]
              /\ env' = [set_order |-> order, swaps |-> 0]
              /\ locals' = DetermineWinner(hole_cards, simulated_board,
                                           opponent_hands, order)
    /\ op' = "determine_winner"
    /\ UNCHANGED <<ranks, suits, outcome>>

NextCompare == ScoreTrial

SpecCompare == Init /\ [][NextCompare]_vars

ParseCards ==
    /\ op = "none"
    /\ \E card_strings \in ListsUpTo(ParsePool, MaxTokens) :
          /\ args' = [card_strings |-> card_strings]
          /\ outcome' = Return(parse_cards(card_strings))
    /\ op' = "parse_cards"
    /\ UNCHANGED <<ranks, suits, locals, env>>

NextParse == ParseCards

SpecParse == Init /\ [][NextParse]_vars

CalculatePotOdds ==
    /\ op = "none"
    /\ \E pot_size \in PotSizes, bet_to_call \in BetSizes, hand \in OddsHands,
          position \in PositionTexts, num_players \in OddsPlayerCounts,
          order \in SetOrders, half \in Halves :
          LET call == calculate_pot_odds(pot_size, bet_to_call, hand.player_cards,
                                         hand.community_cards, position, num_players,
                                         order, half)
          IN  /\ args' = [pot_size |-> pot_size,
                          bet_to_call |-> bet_to_call,
                          player_cards |-> hand.player_cards,
                          community_cards |-> hand.community_cards,
                          position |-> position,
                          num_players |-> num_players]
              /\ env' = [set_order |-> order, swaps |-> 0, half |-> half]
              /\ locals' = call.locals
              /\ outcome' = call.outcome
    /\ op' = "calculate_pot_odds"
    /\ UNCHANGED <<ranks, suits>>

NextOdds == CalculatePotOdds

SpecOdds == Init /\ [][NextOdds]_vars

\* the opponent hands of one trial are dealt from the deck built for the
\* known cards
DealOpponentHands ==
    /\ op = "none"
    /\ \E p \in Positions(SimPool, 0, 2), num_players \in DealPlayerCounts,
          pick \in SamplePicks :
          LET known_cards == parse_cards(Pick(SimPool, p))
              deck == _create_deck(known_cards, Len(known_cards))
          IN  /\ args' = [known_cards |-> known_cards, deck |-> deck,
                          num_players |-> num_players, pick |-> pick]
              /\ locals' = DealOpponents(deck, num_players - 1, <<>>, pick)
    /\ op' = "deal_opponents"
    /\ UNCHANGED <<ranks, suits, outcome, env>>

NextDeal == DealOpponentHands

SpecDeal == Init /\ [][NextDeal]_vars

(***************************************************************************)
(* One engine shared by callers whose calls interleave.  A call binds its  *)
(* parameters in its frame, parses its first list of tokens with the       *)
(* engine's ranks and suits, then computes what it returns or raises.      *)
(***************************************************************************)
\* every call runs in one and the same frame
Frame_shared(c) == 1

\* the frame of the call of caller c: its own
Frame(c) == c

\* what the method of a request returns or raises
ResultOf(request, order, half) ==
    CASE request.method = "evaluate_hand" ->
            evaluate_hand(request.player_cards, request.community_cards, order)
      [] request.method = "parse_cards" -> Return(parse_cards(request.player_cards))
      [] OTHER ->
            calculate_pot_odds(request.pot_size, request.bet_to_call,
                               request.player_cards, request.community_cards,
                               request.position, request.num_players,
                               order, half).outcome

InitShared ==
    /\ Engine
    /\ op = [c \in Callers |-> "idle"]
    /\ args = [c \in Callers |-> <<>>]
    /\ locals = [c \in Callers |-> <<>>]
    /\ outcome = [c \in Callers |-> NoCall]
    /\ env = [c \in Callers |-> <<>>]

CallShared(c) ==
    /\ op[c] \in {"idle", "done"}
    /\ \E request \in SharedCalls, order \in SetOrders, half \in Halves :
          /\ args' = [args EXCEPT ![c] = request]
          /\ env' = [env EXCEPT ![c] =
                        [set_order |-> order, half |-> half, given |-> request]]
          /\ locals' = [locals EXCEPT ![Frame(c)] = [params |-> request]]
    /\ outcome' = [outcome EXCEPT ![c] = NoCall]
    /\ op' = [op EXCEPT ![c] = "called"]
    /\ UNCHANGED <<ranks, suits>>

ParseShared(c) ==
    /\ op[c] = "called"
    /\ locals' = [locals EXCEPT ![Frame(c)] =
                     [params |-> @.params, cards |-> parse_cards(@.params.player_cards)]]
    /\ op' = [op EXCEPT ![c] = "parsed"]
    /\ UNCHANGED <<ranks, suits, args, outcome, env>>

ReturnShared(c) ==
    /\ op[c] = "parsed"
    /\ outcome' = [outcome EXCEPT ![c] =
                      ResultOf(locals[Frame(c)].params, env[c].set_order, env[c].half)]
    /\ op' = [op EXCEPT ![c] = "done"]
    /\ UNCHANGED <<ranks, suits, args, locals, env>>

NextShared == \E c \in Callers : CallShared(c) \/ ParseShared(c) \/ ReturnShared(c)

SpecShared == InitShared /\ [][NextShared]_vars

(***************************************************************************)
(* Properties of calculate_probabilities (SpecSim)                         *)
(***************************************************************************)
Simulated == op = "calculate_probabilities"

\* a trial was entered: the loop variable is bound
TrialEntered == Simulated /\ "trial" \in DOMAIN locals

\* every token of the list denotes a card
AllValid(card_strings) == Len(parse_cards(card_strings)) = Len(card_strings)

\* 2 valid hole cards, a board of 0, 3, 4 or 5 valid cards, 2 to 10 players,
\* at least one trial
ValidSimArgs ==
    /\ Len(args.player_cards) = 2
    /\ Len(args.community_cards) \in {0, 3, 4, 5}
    /\ AllValid(args.player_cards \o args.community_cards)
    /\ args.num_players \in 2..10
    /\ args.num_simulations >= 1

\* the cards of a list of two-card hands
RECURSIVE Flatten(_)
Flatten(hands) == IF hands = <<>> THEN <<>> ELSE Head(hands) \o Flatten(Tail(hands))

\* C1: the deck a trial builds holds none of the known cards (the hole cards
\* and the board cards), a card being known when its rank and suit are those
\* of a known card; so no known card can be drawn from it.
C1_DeckExcludesKnown ==
    (Simulated /\ "deck" \in DOMAIN locals) =>
        Faces(locals.deck) \cap Faces(locals.known_cards) = {}

\* C2: in a trial the cards drawn to complete the board and the two cards
\* drawn for each opponent are pairwise distinct.
C2_DealtWithoutReplacement ==
    (TrialEntered /\ ValidSimArgs) =>
        /\ "simulated_board" \in DOMAIN locals
        /\ "opponent_hands" \in DOMAIN locals
        /\ LET drawn == SubSeq(locals.simulated_board,
                               6 - locals.remaining_community, 5)
                        \o Flatten(locals.opponent_hands)
           IN  /\ Len(drawn) = locals.remaining_community + 2 * (args.num_players - 1)
               /\ Cardinality(Faces(drawn)) = Len(drawn)

\* C3: for 2 valid hole cards, a board of 0, 3, 4 or 5 valid cards, 2 to 10
\* players and at least one trial, the call returns win, tie and lose
\* probabilities and a simulations field equal to num_simulations.
C3_ReturnsOutcome ==
    (Simulated /\ ValidSimArgs) =>
        /\ outcome.kind = "return"
        /\ DOMAIN outcome.value =
              {"win_probability", "tie_probability", "lose_probability", "simulations"}
        /\ outcome.value.simulations = args.num_simulations

\* C4: in a trial the holder's score is compared with the best opponent score
\* and the trial is counted once: as a win if greater, as a tie if equal, as
\* a loss otherwise.
C4_OneCountPerTrial ==
    (TrialEntered /\ ValidSimArgs) =>
        /\ "player_score" \in DOMAIN locals
        /\ "best_opponent_score" \in DOMAIN locals
        /\ LET won == ScoreGreater(locals.player_score, locals.best_opponent_score)
               tied == locals.player_score = locals.best_opponent_score
               losses == (locals.trial + 1) - locals.wins - locals.ties
           IN  /\ locals.wins + locals.ties + losses = locals.trial + 1
               /\ locals.trial = 0 => locals.wins = (IF won THEN 1 ELSE 0)
               /\ locals.trial = 0 => locals.ties = (IF tied /\ ~won THEN 1 ELSE 0)
               /\ locals.trial = 0 => losses = (IF won \/ tied THEN 0 ELSE 1)

\* C5: after N >= 1 trials the call reports probabilities that are count / N *
\* 100 rounded to 2 decimals, each in [0, 100], with wins + ties + losses = N
\* and a sum within 0.01 of 100.
C5_Probabilities ==
    (Simulated /\ ValidSimArgs) =>
        /\ outcome.kind = "return"
        /\ locals.wins + locals.ties <= args.num_simulations
        /\ outcome.value.win_probability = Percent(locals.wins, args.num_simulations)
        /\ outcome.value.tie_probability = Percent(locals.ties, args.num_simulations)
        /\ \A f \in {"win_probability", "tie_probability", "lose_probability"} :
              outcome.value[f] \in 0..10000
        /\ outcome.value.win_probability + outcome.value.tie_probability
              + outcome.value.lose_probability \in 9999..10001

\* C28: a trial entered with 2 hole-card tokens and 0 to 5 community tokens,
\* valid or not, completes a board of exactly 5 cards, and the holder's hand
\* and every opponent's hand it evaluates are 7 cards.
C28_BoardOfFive ==
    (/\ TrialEntered
     /\ Len(args.player_cards) = 2
     /\ Len(args.community_cards) \in 0..5
     /\ args.num_players \in 2..10) =>
        /\ {"simulated_board", "opponent_hands"} \subseteq DOMAIN locals
        /\ Len(locals.simulated_board) = 5
        /\ Len(Pick(locals.known_cards, 1..2) \o locals.simulated_board) = 7
        /\ \A i \in DOMAIN locals.opponent_hands :
              Len(locals.opponent_hands[i] \o locals.simulated_board) = 7

\* C15: calculate_probabilities fails with the invalid-input error
\* (ValueError) when fewer than 2 hole cards are given, when the number of
\* opponents is not in 1..9 or when the number of trials is below 1; for such
\* arguments it enters no trial, does not divide by the trial count and
\* returns no probabilities.
C15_RejectsOutOfBounds ==
    (/\ Simulated
     /\ \/ Len(args.player_cards) < 2
        \/ args.num_players - 1 \notin 1..9
        \/ args.num_simulations < 1) =>
        /\ outcome = Raise("ValueError")
        /\ ~TrialEntered

(***************************************************************************)
(* Properties of evaluate_hand (SpecHand)                                  *)
(***************************************************************************)
HandEvaluated == op = "evaluate_hand"

\* C8: for 2 valid hole-card tokens and 0 to 5 valid board-card tokens
\* evaluate_hand returns the category, a description and a strength
\* percentage; Ah Kh with board Qh Jh 10h is a Royal Flush.
C8_EvaluateHandReturns ==
    (/\ HandEvaluated
     /\ Len(args.player_cards) = 2
     /\ AllValid(args.player_cards \o args.community_cards)) =>
        /\ outcome.kind = "return"
        /\ outcome.value.hand_rank \in DOMAIN HandRank
        /\ outcome.value.hand_description # ""
        /\ outcome.value.strength_percentage \in 0..10000
        /\ (args.player_cards \o args.community_cards = RoyalTokens)
              => outcome.value.hand_rank = "ROYAL_FLUSH"

\* C13: a call of evaluate_hand with a token that denotes no card is rejected
\* as a whole: it ends with an error and returns no result, so no hand is
\* evaluated against fewer cards than the tokens given.
C13_RejectsMalformedToken ==
    (HandEvaluated /\ ~AllValid(args.player_cards \o args.community_cards)) =>
        /\ outcome.kind = "raise"
        /\ outcome.kind # "return"

\* C14: evaluate_hand fails and returns no result whenever fewer than 2 hole
\* cards are given: no list, fewer than 2 tokens, or fewer than 2 tokens that
\* denote cards.
C14_NeedsTwoHoleCards ==
    (HandEvaluated /\ Len(parse_cards(args.player_cards)) < 2) =>
        outcome.kind = "raise"

(***************************************************************************)
(* Properties of the hand evaluator (SpecEval)                             *)
(***************************************************************************)
Evaluated == op = "_evaluate_hand_strength"

\* the cards in the order of their identities, the order they were parsed in
RECURSIVE ById(_)
ById(S) ==
    IF S = {} THEN <<>>
    ELSE LET c == CHOOSE x \in S : \A y \in S : x.id <= y.id
         IN  <<c>> \o ById(S \ {c})

\* the category of a five-card hand by the rules of poker
FiveCardCategory(five) ==
    LET V == {get_value(c) : c \in five}
        n(v) == Cardinality({c \in five : get_value(c) = v})
        flush == Cardinality({c.suit : c \in five}) = 1
        straight ==
            /\ Cardinality(V) = 5
            /\ \/ SetMax(V) - SetMin(V) = 4
               \/ V = {14, 2, 3, 4, 5}
    IN  IF straight /\ flush /\ V = 10..14 THEN HandRank["ROYAL_FLUSH"]
        ELSE IF straight /\ flush THEN HandRank["STRAIGHT_FLUSH"]
        ELSE IF \E v \in V : n(v) = 4 THEN HandRank["FOUR_OF_A_KIND"]
        ELSE IF Cardinality(V) = 2 THEN HandRank["FULL_HOUSE"]
        ELSE IF flush THEN HandRank["FLUSH"]
        ELSE IF straight THEN HandRank["STRAIGHT"]
        ELSE IF \E v \in V : n(v) = 3 THEN HandRank["THREE_OF_A_KIND"]
        ELSE IF Cardinality(V) = 3 THEN HandRank["TWO_PAIR"]
        ELSE IF Cardinality(V) = 4 THEN HandRank["PAIR"]
        ELSE HandRank["HIGH_CARD"]

\* the best category over all five-card hands chosen from the cards
BestCategory(cards) ==
    SetMax({FiveCardCategory(five) :
               five \in {x \in SUBSET Range(cards) : Cardinality(x) = 5}})

\* C6: the category the evaluator returns for 5 to 7 distinct cards is the
\* category of the best five-card hand that can be chosen from them.
C6_BestCategory ==
    Evaluated => HandRank[outcome.value.hand_rank] = BestCategory(args.cards)

\* C7: the wheel in one suit evaluates to Straight Flush with primary value 5,
\* and the wheel in mixed suits to Straight with primary value 5.
C7_Wheel ==
    /\ (Evaluated /\ Faces(args.cards) = Faces(parse_cards(WheelFlushTokens)))
          => outcome = Return(Hand("STRAIGHT_FLUSH", 5, <<>>))
    /\ (Evaluated /\ Faces(args.cards) = Faces(parse_cards(WheelTokens)))
          => outcome = Return(Hand("STRAIGHT", 5, <<>>))

C7_Witness ==
    /\ Evaluated
    /\ args.cards = parse_cards(WheelFlushTokens)
    /\ outcome.value.hand_rank = "STRAIGHT_FLUSH"

WellFormed(hand) ==
    /\ hand.hand_rank \in DOMAIN HandRank
    /\ hand.hand_value \in 2..14
    /\ \A i \in DOMAIN hand.kickers : hand.kickers[i] \in 2..14
    /\ \A i \in DOMAIN hand.kickers : i > 1 => hand.kickers[i - 1] >= hand.kickers[i]

\* C10: for 5 to 7 valid cards the evaluator returns a result, and the result
\* for the cards in any order is the result for the cards in the order they
\* were first given in.
C10_OrderIndependent ==
    Evaluated =>
        /\ outcome.kind = "return"
        /\ WellFormed(outcome.value)
        /\ outcome.value = _evaluate_hand_strength(ById(Range(args.cards)), env.set_order)

C10_Witness ==
    /\ Evaluated
    /\ Len(args.cards) = 7
    /\ env.swaps = 2
    /\ args.cards # ById(Range(args.cards))
    /\ outcome.value.hand_rank = "FLUSH"

\* the values of the cards of one suit
SuitValues(cards, suit) == {get_value(cards[i]) : i \in {k \in DOMAIN cards : cards[k].suit = suit}}

\* the high cards of the runs of 5 consecutive values in V, the Ace counting
\* low for A-2-3-4-5 only
RunHighs(V) ==
    {h \in 6..14 : (h - 4)..h \subseteq V} \cup
    (IF {14, 2, 3, 4, 5} \subseteq V THEN {5} ELSE {})

\* the high cards of the straights held within one suit
SameSuitRunHighs(cards) ==
    UNION {RunHighs(SuitValues(cards, suit)) : suit \in Range(SuitsOf(cards))}

\* C24: the evaluator returns Straight Flush or Royal Flush only when one
\* suit holds 5 consecutive values (wheel allowed): Royal Flush exactly when
\* such a same-suit straight is Ace-high, otherwise Straight Flush with the
\* high card of the same-suit straight as primary value.
C24_StraightFlushSameSuit ==
    Evaluated =>
        LET highs == SameSuitRunHighs(args.cards)
            hand == outcome.value
        IN  /\ hand.hand_rank = "ROYAL_FLUSH" <=> 14 \in highs
            /\ hand.hand_rank = "STRAIGHT_FLUSH" =>
                  (highs # {} /\ hand.hand_value = SetMax(highs))

\* C25: a Straight has as primary value the high card of the highest run of 5
\* consecutive distinct values among the cards, the Ace counting low for
\* A-2-3-4-5 only: cards holding both A-2-3-4-5 and 2-3-4-5-6 give 6.
C25_StraightHigh ==
    (Evaluated /\ outcome.value.hand_rank = "STRAIGHT") =>
        LET highs == RunHighs(Range(ValuesOf(args.cards)))
        IN  /\ highs # {}
            /\ outcome.value.hand_value = SetMax(highs)

\* C26: with no straight flush and no four of a kind among the cards, a rank
\* held at least 3 times and a different rank held at least 2 times (3 times
\* included) give Full House, the primary value being the highest rank held
\* at least 3 times and the kicker the highest different rank held at least
\* 2 times.
C26_FullHouseTwoTriples ==
    Evaluated =>
        LET values == ValuesOf(args.cards)
            threes == {v \in Range(values) : Count(values, v) >= 3}
            fours == {v \in Range(values) : Count(values, v) >= 4}
            triple == SetMax(threes)
            others == {v \in Range(values) : v # triple /\ Count(values, v) >= 2}
        IN  (/\ SameSuitRunHighs(args.cards) = {}
             /\ fours = {}
             /\ threes # {}
             /\ others # {}) =>
                outcome = Return(Hand("FULL_HOUSE", triple, <<SetMax(others)>>))

(***************************************************************************)
(* Properties of the comparison of evaluated hands (SpecCompare)           *)
(***************************************************************************)
TrialScored == op = "determine_winner"

\* a score as one sequence: category, primary value, then the kickers
Flat(score) == <<score[1], score[2]>> \o score[3]

\* the first position where x and y differ, 0 if there is none
FirstDifference(x, y) ==
    LET D == {k \in 1..Min(Len(x), Len(y)) : x[k] # y[k]}
    IN  IF D = {} THEN 0 ELSE SetMin(D)

\* x is after y in the lexicographic order
LexGreater(x, y) ==
    LET k == FirstDifference(x, y)
    IN  k # 0 /\ x[k] > y[k]

\* the scores of the opponent hands of the trial
OpponentScores ==
    {Score(_evaluate_hand_strength(args.opponent_hands[i] \o args.simulated_board,
                                   env.set_order)) : i \in DOMAIN args.opponent_hands}

KickerlessCategories ==
    {HandRank[c] : c \in {"PAIR", "THREE_OF_A_KIND", "STRAIGHT", "FOUR_OF_A_KIND",
                          "STRAIGHT_FLUSH", "ROYAL_FLUSH"}}

Parsed == op = "parse_cards"

Letters ==
    {"A", "B", "C", "D", "E", "F", "G", "H", "I", "J", "K", "L", "M",
     "N", "O", "P", "Q", "R", "S", "T", "U", "V", "W", "X", "Y", "Z"}

\* the upper-case letter of a lower-case letter, any other character itself
Upper(ch) ==
    IF \E c \in Letters : c # ch /\ Lower(c) = ch
    THEN CHOOSE c \in Letters : Lower(c) = ch
    ELSE ch

\* the rank and the suit a token denotes when case is ignored
RankOf(card_str) ==
    Join([i \in 1..(Len(card_str) - 1) |-> Upper(card_str[i])])

SuitOf(card_str) == Lower(card_str[Len(card_str)])

\* a rank token followed by a suit token, in any case
IsCardToken(card_str) ==
    /\ Len(card_str) >= 2
    /\ RankOf(card_str) \in Range(InitRanks)
    /\ SuitOf(card_str) \in Range(InitSuits)

\* C12: for a list of tokens each made of a rank (2..10, J, Q, K, A) and a
\* suit letter (h, d, c, s) in any mix of upper and lower case, parse_cards
\* returns exactly one card per token, with that rank and suit, in input
\* order.
C12_CaseInsensitive ==
    (Parsed /\ \A i \in DOMAIN args.card_strings : IsCardToken(args.card_strings[i])) =>
        /\ outcome.kind = "return"
        /\ Len(outcome.value) = Len(args.card_strings)
        /\ \A i \in DOMAIN args.card_strings :
              /\ outcome.value[i].rank = RankOf(args.card_strings[i])
              /\ outcome.value[i].suit = SuitOf(args.card_strings[i])

(***************************************************************************)
(* Properties of calculate_pot_odds (SpecOdds)                             *)
(***************************************************************************)
OddsCalculated == op = "calculate_pot_odds"

\* v is x rounded to units of 1 / scale: no multiple of the unit is nearer
RoundedFrom(v, x, scale) == 2 * Abs(v * x.d - x.n * scale) <= x.d

\* C16: calculate_pot_odds fails when pot_size <= 0 or bet_to_call < 0: it
\* returns no result and does not divide by zero; and a result returned for a
\* call without hole cards or without board cards has equity 0.
C16_RejectsBadAmounts ==
    OddsCalculated =>
        /\ (args.pot_size <= 0 \/ args.bet_to_call < 0) =>
              /\ outcome.kind = "raise"
              /\ outcome.error # "ZeroDivisionError"
        /\ (/\ outcome.kind = "return"
            /\ (args.player_cards = <<>> \/ args.community_cards = <<>>)) =>
              outcome.value.equity = 0

\* C17: for pot_size > 0 and bet_to_call >= 0 calculate_pot_odds reports
\* pot_odds_ratio = bet_to_call / (pot_size + bet_to_call) (to 4 decimals),
\* pot_odds_percentage = ratio * 100 rounded to 2 decimals and a
\* break_even_equity equal to it; for pot_size 100 and bet_to_call 20 both
\* are 16.67.
C17_PotOdds ==
    (OddsCalculated /\ args.pot_size > 0 /\ args.bet_to_call >= 0) =>
        LET ratio == Rat(args.bet_to_call, args.pot_size + args.bet_to_call)
        IN  /\ outcome.kind = "return"
            /\ RoundedFrom(outcome.value.pot_odds_ratio, ratio, 10000)
            /\ RoundedFrom(outcome.value.pot_odds_percentage,
                           RatMul(ratio, Rat(100, 1)), 100)
            /\ outcome.value.break_even_equity = outcome.value.pot_odds_percentage
            /\ (args.pot_size = 100 /\ args.bet_to_call = 20) =>
                  outcome.value.pot_odds_percentage = 1667

\* the position multiplier in tenths: the table of the claim, read with the
\* position in lower case
PositionTenths(position) ==
    LET name == LowerStr(position)
    IN  IF name = "button" THEN 12
        ELSE IF name = "cutoff" THEN 11
        ELSE IF name = "early" THEN 9
        ELSE 10

\* the player-count multiplier in tenths: max(0.8, 1.0 - (num_players - 2) * 0.1)
PlayerCountTenths(num_players) ==
    IF 10 - (num_players - 2) >= 8 THEN 10 - (num_players - 2) ELSE 8

\* C18: for every position and 2 to 10 players the implied odds are pot_size
\* * position multiplier * player-count multiplier, the position multiplier
\* being 1.2 for button, 1.1 for cutoff, 1.0 for middle, 0.9 for early, 1.0
\* for blinds and for any other position (small_blind, big_blind, unknown),
\* the player-count multiplier max(0.8, 1.0 - (num_players - 2) * 0.1); a
\* result reports them rounded to 2 decimals.
C18_ImpliedOdds ==
    (/\ OddsCalculated
     /\ "implied_odds" \in DOMAIN locals
     /\ args.num_players \in 2..10) =>
        LET expected == Rat(args.pot_size * PositionTenths(args.position)
                                * PlayerCountTenths(args.num_players), 100)
        IN  /\ locals.implied_odds = expected
            /\ outcome.kind = "return" =>
                  RoundedFrom(outcome.value.implied_odds, expected, 100)

\* the call of the position test: pot 100 and bet 20 on the button with 6
\* players, the player-count multiplier at its floor, gives 96
C18_Witness ==
    /\ OddsCalculated
    /\ args.pot_size = 100
    /\ args.bet_to_call = 20
    /\ args.player_cards \o args.community_cards = RoyalTokens
    /\ args.position = <<"b", "u", "t", "t", "o", "n">>
    /\ args.num_players = 6
    /\ "implied_odds" \in DOMAIN locals
    /\ locals.implied_odds = Rat(96, 1)

\* pot_size > 0, bet_to_call >= 0, 2 to 10 players, 2 hole cards and 3 to 5
\* board cards, all valid
ValidOddsArgsWithCards ==
    /\ args.pot_size > 0
    /\ args.bet_to_call >= 0
    /\ args.num_players \in 2..10
    /\ Len(args.player_cards) = 2
    /\ Len(args.community_cards) \in 3..5
    /\ AllValid(args.player_cards \o args.community_cards)

\* the recommendation the cascade gives
Cascade(equity, ev, pot_odds, bet_to_call) ==
    IF equity.n = 0 THEN "Insufficient information to make recommendation"
    ELSE IF RatGreater(ev, Rat(0, 1)) /\ RatGreater(ev, Rat(bet_to_call, 2))
    THEN "Strong call - high expected value"
    ELSE IF RatGreater(ev, Rat(0, 1)) THEN "Call - marginally profitable"
    ELSE IF RatGreater(equity, pot_odds) THEN "Call - equity exceeds pot odds"
    ELSE "Fold - equity below pot odds"

\* C19: for valid arguments with hole cards and board cards calculate_pot_odds
\* returns a result, and its recommendation is the one of the cascade:
\* insufficient information for equity 0; else strong call for an expected
\* value above 0 and above half the bet; else marginal call for an expected
\* value above 0; else call for an equity above the pot-odds percentage; else
\* fold.
C19_Recommendation ==
    (OddsCalculated /\ ValidOddsArgsWithCards) =>
        /\ outcome.kind = "return"
        /\ outcome.value.recommendation =
              Cascade(locals.equity, locals.ev, locals.pot_odds_percentage,
                      args.bet_to_call)

\* C20: in every result is_profitable is true exactly when the equity is
\* above the pot-odds percentage, and false when the equity is 0.
C20_Profitable ==
    (OddsCalculated /\ outcome.kind = "return") =>
        /\ outcome.value.is_profitable <=>
              outcome.value.equity > outcome.value.pot_odds_percentage
        /\ outcome.value.equity = 0 => ~outcome.value.is_profitable

\* the equity of a category among num_players players: 50 for the lowest
\* category and 5 more for each category above it, times 1 less a tenth for
\* each player beyond the second, but at least a half
EquityOf(category, num_players) ==
    LET tenths == IF 12 - num_players > 5 THEN 12 - num_players ELSE 5
    IN  Rat((45 + 5 * HandRank[category]) * tenths, 10)

\* C29: calculate_pot_odds uses equity 0 when the hole-card list or the
\* community-card list is empty, and then returns equity 0, is_profitable
\* false and the insufficient-information recommendation; so does every call
\* with 2 hole cards, an empty board and valid amounts; with both lists
\* non-empty the equity is given by the evaluated category and num_players.
C29_EquityWithoutCards ==
    /\ (OddsCalculated /\ args.pot_size > 0 /\ args.bet_to_call >= 0) =>
          "equity" \in DOMAIN locals
    /\ (OddsCalculated /\ "equity" \in DOMAIN locals) =>
        LET missing == args.player_cards = <<>> \/ args.community_cards = <<>>
            cards == parse_cards(args.player_cards \o args.community_cards)
            hand == _evaluate_hand_strength(cards, env.set_order)
        IN  /\ missing =>
                  /\ locals.equity = Rat(0, 1)
                  /\ outcome.kind = "return"
                  /\ outcome.value.equity = 0
                  /\ outcome.value.is_profitable = FALSE
                  /\ outcome.value.recommendation =
                        "Insufficient information to make recommendation"
            /\ ~missing => locals.equity = EquityOf(hand.hand_rank, args.num_players)

\* a pre-flop call with valid amounts has returned
C29_Witness ==
    /\ OddsCalculated
    /\ Len(args.player_cards) = 2
    /\ args.community_cards = <<>>
    /\ args.pot_size > 0
    /\ args.bet_to_call > 0
    /\ outcome.kind = "return"
    /\ outcome.value.recommendation = "Insufficient information to make recommendation"

CallRecommendations ==
    {"Strong call - high expected value", "Call - marginally profitable",
     "Call - equity exceeds pot odds"}

\* C30: in every result calculate_pot_odds returns, is_profitable true comes
\* with a call recommendation: a fold is recommended only when is_profitable
\* is false.
C30_ProfitableIsCall ==
    (OddsCalculated /\ outcome.kind = "return") =>
        /\ outcome.value.is_profitable =>
              outcome.value.recommendation \in CallRecommendations
        /\ outcome.value.recommendation = "Fold - equity below pot odds" =>
              ~outcome.value.is_profitable

\* a result for valid amounts says profitable and recommends a call
C30_Witness ==
    /\ OddsCalculated
    /\ args.pot_size > 0
    /\ args.bet_to_call > 0
    /\ outcome.kind = "return"
    /\ outcome.value.is_profitable
    /\ outcome.value.recommendation \in CallRecommendations

(***************************************************************************)
(* Properties of the dealing of opponent hands (SpecDeal)                  *)
(***************************************************************************)
Dealt == op = "deal_opponents"

C22_EquityFromSimulation ==
    (/\ OddsCalculated
     /\ args.pot_size > 0
     /\ args.bet_to_call >= 0
     /\ args.player_cards # <<>>
     /\ args.community_cards # <<>>
     /\ "equity" \in DOMAIN locals) =>
        \E num_simulations \in 1..MaxSimulations :
            LET simulation == calculate_probabilities(args.player_cards,
                                  args.community_cards, args.num_players,
                                  num_simulations)
            IN  /\ simulation.outcome.kind = "return"
                /\ RoundedFrom(simulation.outcome.value.win_probability,
                               locals.equity, 100)

(***************************************************************************)
(* Properties of the shared engine (SpecShared)                            *)
(***************************************************************************)
\* C23: no call of evaluate_hand, calculate_pot_odds or parse_cards changes
\* the engine's ranks and suits or the lists its caller gave, and under every
\* interleaving of the calls of two callers each caller gets what its call
\* gives when it runs alone.
C23_Stateless ==
    /\ ranks = InitRanks
    /\ suits = InitSuits
    /\ \A c \in Callers :
          /\ op[c] # "idle" => args[c] = env[c].given
          /\ op[c] = "parsed" =>
                locals[Frame(c)].cards = parse_cards(args[c].player_cards)
          /\ op[c] = "done" =>
                outcome[c] = ResultOf(args[c], env[c].set_order, env[c].half)

\* a caller has its result while another caller's different call is under way
C23_Witness ==
    /\ op[1] = "done"
    /\ op[2] = "parsed"
    /\ args[1] # args[2]
    /\ outcome[1].kind = "return"

====
